---- MODULE Spec2Model ----
(***************************************************************************)
(* deepx: synthesis of a random-dot autostereogram from a mask image.      *)
(*                                                                         *)
(* Two specifications share the definitions below.                         *)
(*   Spec      drawAutoStereogram: the main goroutine spawns one worker    *)
(*             per row and joins; every worker runs the disparity pass     *)
(*             (one loop iteration per step) and the colouring pass (one   *)
(*             call of rand.Intn or one img.Set per step).                 *)
(*   SpecMask  newDepthBufferFromImage over a small mask image.            *)
(*                                                                         *)
(* mu and eRatio are float64 in the source; here they are exact rationals  *)
(* <<numerator, denominator>>, and the depth values are the integers 0, 1. *)
(* A run-time panic of a goroutine (index out of range) ends the process.  *)
(***************************************************************************)
EXTENDS Integers, Sequences, FiniteSets, TLC

\* ------------------------------------------------------------ bounds
\* An image has at most MaxW columns and MaxH rows, and a call is at most MaxWork
\* of scheduling work: columns * rows * rows * (calls of rand.Intn per colour).
MaxW == 7
MaxH == 2
MaxWork == 16
\* A mask of SpecMask has at most MaxMaskCells pixels.
MaxMaskCells == 3

\* ------------------------------------------------------------ colours
MkColor(r, g, b, a) == [R |-> r, G |-> g, B |-> b, A |-> a]

\* The zero value of Color: make([]Color, n) and image.NewRGBA.
ZeroColor == MkColor(0, 0, 0, 0)

Red == MkColor(255, 0, 0, 255)
Blue == MkColor(0, 0, 255, 255)

\* The nil *Color.
NilColor == [nil |-> TRUE]

\* Color.Equal
Equal(c, other) ==
    c.A = other.A /\ c.B = other.B /\ c.R = other.R /\ c.G = other.G

\* A pixel of a decoded image is a color.Color. The decoders give color.NRGBA
\* (a PNG with an alpha channel: channels not premultiplied) or color.RGBA
\* (opaque PNG, GIF palette entries: channels premultiplied).
MkPixel(m, r, g, b, a) == [model |-> m, R |-> r, G |-> g, B |-> b, A |-> a]

\* pxColor.RGBA(): the 16-bit alpha-premultiplied channels.
\*   color.RGBA:  r = R | R<<8, a = A | A<<8
\*   color.NRGBA: r = (R | R<<8) * A / 0xff, a = A | A<<8
RGBA16(px) ==
    IF px.model = "NRGBA"
      THEN [r |-> (px.R * 257 * px.A) \div 255, g |-> (px.G * 257 * px.A) \div 255,
            b |-> (px.B * 257 * px.A) \div 255, a |-> px.A * 257]
      ELSE [r |-> px.R * 257, g |-> px.G * 257, b |-> px.B * 257, a |-> px.A * 257]

\* uint8(255 * float64(v) / math.MaxUint16)
Scale8(v) == ((255 * v) \div 65535) % 256

\* ColorRGBA
ColorRGBA(px) ==
    LET c == RGBA16(px) IN MkColor(Scale8(c.r), Scale8(c.g), Scale8(c.b), Scale8(c.a))

\* ------------------------------------------------------------ arithmetic
\* math.Ceil of the rational a/b, b > 0.
CeilDiv(a, b) == -((-a) \div b)

\* ------------------------------------------------------------ state
VARIABLES
    imgWidth, imgHeight, \* the mask's dimensions
    zBuf,                \* zBuf[x][y], the depth field
    cfg,                 \* the StereogramConfig after the options
    mainPc,              \* drawAutoStereogram: "spawn", "wait", "returned"
    spawned,             \* the loop variable y of the spawning loop
    wg,                  \* the WaitGroup's counter
    pc,                  \* pc[y]: where the worker of row y is
    x,                   \* x[y]: the worker's column
    t,                   \* t[y]: the visibility loop's t
    left, right,         \* left[y], right[y]
    same,                \* same[y][x]: the worker's link table
    pixels,              \* pixels[y][x]: the worker's row of colours
    partial,             \* partial[y]: the channels drawn so far (empty palette)
    img,                 \* img[y][x]: the output image
    rng,                 \* the position of the global random source
    writes,              \* history: writes[y][x], the workers that called img.Set(x, y, _)
    draws,               \* history: draws[i], the worker and the position of the i-th draw
    drawn,               \* history: drawn[y], the colours getRandomPaletteColor gave worker y
    linked,              \* history: linked[y], the pairs <<left, right>> that passed the tests
    mask,                \* SpecMask: mask[x][y], a pixel of the decoded image
    depth,               \* SpecMask: the depth buffer z being built
    mx                   \* SpecMask: the column the builder is at

vars == <<imgWidth, imgHeight, zBuf, cfg, mainPc, spawned, wg, pc, x, t, left,
          right, same, pixels, partial, img, rng, writes, draws, drawn, linked,
          mask, depth, mx>>

inputVars == <<imgWidth, imgHeight, zBuf, cfg>>
maskVars == <<mask, depth, mx>>

Cols == 0 .. imgWidth - 1
Rows == 0 .. imgHeight - 1

\* ------------------------------------------------------------ configuration
\* defaultStereogramCfg
DefaultCfg ==
    [MaskTransparentColor |-> NilColor, Palette |-> <<>>, Mu |-> <<1, 3>>,
     DPI |-> 72, ERatio |-> <<5, 2>>]

WithColorPalette(c, p) == [c EXCEPT !.Palette = p]
WithOutputDPI(c, dpi) == [c EXCEPT !.DPI = dpi]
WithEyeSepartionRatio(c, ratio) == [c EXCEPT !.ERatio = ratio]
\* A caller's own StereogramOption: Mu is an exported field of the configuration.
WithMu(c, mu) == [c EXCEPT !.Mu = mu]
WithMaskTransparentColor(c, col) == [c EXCEPT !.MaskTransparentColor = col]

\* The configurations of Spec: the default one (e = 180), and small eye
\* separations e = 3, 5, 8, 5, 2, which make separations of 1 .. 4 columns, so
\* that links form in narrow rows. For each of them the float64 arithmetic of
\* the source and the exact arithmetic here give the same separations and the
\* same comparisons of zt.
Configs ==
    { DefaultCfg,
      WithColorPalette(WithOutputDPI(DefaultCfg, 1), <<Red, Blue>>),
      WithColorPalette(WithMu(WithOutputDPI(DefaultCfg, 2), <<1, 2>>), <<Red, Blue>>),
      WithColorPalette(WithMu(WithOutputDPI(DefaultCfg, 3), <<3, 4>>), <<Red>>),
      WithColorPalette(WithMu(WithOutputDPI(DefaultCfg, 2), <<9, 10>>), <<Red, Blue>>),
      WithColorPalette(WithEyeSepartionRatio(WithOutputDPI(DefaultCfg, 1), <<2, 1>>),
                       <<Red, Blue>>) }

\* e := math.Ceil(cfg.ERatio * float64(cfg.DPI))
EyeSep(c) == CeilDiv(c.ERatio[1] * c.DPI, c.ERatio[2])

e == EyeSep(cfg)
MuN == cfg.Mu[1]
MuD == cfg.Mu[2]
palette == cfg.Palette

\* ------------------------------------------------------------ the row algorithm
\* projSeparation(z, mu, e) = int(math.Ceil((1 - mu*z) * e / (2 - mu*z)))
projSeparation(z, muN, muD, ee) ==
    CeilDiv((muD - muN * z) * ee, 2 * muD - muN * z)

Sep(xx, y) == projSeparation(zBuf[xx][y], MuN, MuD, e)

\* left := x - (s+(s&y&1))/2
LeftOf(xx, y) ==
    LET s == Sep(xx, y) IN xx - ((s + ((s % 2) * (y % 2))) \div 2)

\* right on the wrong side of left: left - s.
RightOfMirrored(xx, y) == LeftOf(xx, y) - Sep(xx, y)

\* right := left + s
RightOf(xx, y) == LeftOf(xx, y) + Sep(xx, y)

\* The edge test with right > imgWidth: one column too far.
EdgeSkipOffByOne(l, r) == l < 0 \/ r > imgWidth

\* if left < 0 || right >= imgWidth { continue }
EdgeSkip(l, r) == l < 0 \/ r >= imgWidth

\* zt := zBuf[x][y] + 2*(2-mu*zBuf[x][y])*float64(t)/(mu*e), as ZtNum / ZtDen
ZtNum(z, tt) == z * MuN * e + 2 * (2 * MuD - MuN * z) * tt
ZtDen == MuN * e

\* d < zt and zt < 1, with ZtDen > 0
DepthBelowZt(d, z, tt) == d * ZtDen < ZtNum(z, tt)
ZtBelowOne(z, tt) == ZtNum(z, tt) < ZtDen

\* An index expression of a slice of length imgWidth panics outside [0, imgWidth).
InRange(i) == i >= 0 /\ i < imgWidth

\* The link-resolution loop never entered: same[left] = right at once.
LinkLoopCondNever(k, l, r) == FALSE

\* The condition of the link-resolution loop: k != left && k != right
LinkLoopCond(k, l, r) == k # l /\ k # r

\* The colouring loop stopping before column 0: x > 0.
ColorLoopCondSkipsFirst(xx) == xx > 0

\* The condition of the colouring loop: for x := imgWidth - 1; x >= 0; x--
ColorLoopCond(xx) == xx >= 0

\* ------------------------------------------------------------ the random source
\* The global source of math/rand as a fixed stream: the value at a position.
\* rand.Intn locks the source, so a draw reads and advances it in one step.
Stream(pos) == (3 + 7 * pos) % 256

\* rand.Intn(n) on the source at position pos
Intn(n, pos) == Stream(pos) % n

\* A source that a draw reads and does not advance.
AdvanceStuck(pos) == pos

\* The source's position after one rand.Intn.
Advance(pos) == pos + 1

\* The calls of rand.Intn one call of getRandomPaletteColor makes.
IntnPerColor(pal) == IF Len(pal) = 0 THEN 3 ELSE 1


\* ------------------------------------------------------------ drawAutoStereogram
\* An unrecovered panic in a goroutine ends the whole process.
Crashed == \E y \in Rows : pc[y] = "panic"

NoMask == [xx \in {} |-> 0]

\* The state when drawAutoStereogram has made img and called wg.Add(imgHeight).
Init ==
    /\ cfg \in Configs
    /\ imgHeight \in 1 .. MaxH
    /\ imgWidth \in 1 .. MaxW
    /\ imgWidth * imgHeight * imgHeight * IntnPerColor(cfg.Palette) <= MaxWork
    /\ zBuf \in [0 .. imgWidth - 1 -> [0 .. imgHeight - 1 -> {0, 1}]]
    /\ mainPc = "spawn"
    /\ spawned = 0
    /\ wg = imgHeight
    /\ pc = [y \in Rows |-> "idle"]
    /\ x = [y \in Rows |-> 0]
    /\ t = [y \in Rows |-> 0]
    /\ left = [y \in Rows |-> 0]
    /\ right = [y \in Rows |-> 0]
    /\ same = [y \in Rows |-> <<>>]
    /\ pixels = [y \in Rows |-> <<>>]
    /\ partial = [y \in Rows |-> <<>>]
    /\ img = [y \in Rows |-> [xx \in Cols |-> ZeroColor]]
    /\ rng = 0
    /\ writes = [y \in Rows |-> [xx \in Cols |-> <<>>]]
    /\ draws = <<>>
    /\ drawn = [y \in Rows |-> {}]
    /\ linked = [y \in Rows |-> {}]
    /\ mask = NoMask
    /\ depth = NoMask
    /\ mx = 0

\* go func(y int) {...}(y) for the next row; the goroutine makes its link table
\* same[x] = x before it reads anything shared.
Spawn ==
    /\ ~Crashed
    /\ mainPc = "spawn"
    /\ spawned < imgHeight
    /\ pc' = [pc EXCEPT ![spawned] = "col"]
    /\ same' = [same EXCEPT ![spawned] = [xx \in Cols |-> xx]]
    /\ spawned' = spawned + 1
    /\ mainPc' = IF spawned + 1 < imgHeight THEN "spawn" ELSE "wait"
    /\ UNCHANGED <<inputVars, maskVars, wg, x, t, left, right, pixels, partial,
                   img, rng, writes, draws, drawn, linked>>

\* The end of one iteration of the disparity loop: x++, and after the last column
\* pixels := make([]Color, imgWidth) and the colouring loop starts at imgWidth - 1.
EndColumn(y) ==
    /\ t' = [t EXCEPT ![y] = 0]
    /\ left' = [left EXCEPT ![y] = 0]
    /\ right' = [right EXCEPT ![y] = 0]
    /\ IF x[y] + 1 < imgWidth
         THEN /\ x' = [x EXCEPT ![y] = x[y] + 1]
              /\ pc' = [pc EXCEPT ![y] = "col"]
              /\ UNCHANGED pixels
         ELSE /\ x' = [x EXCEPT ![y] = imgWidth - 1]
              /\ pc' = [pc EXCEPT ![y] = "color"]
              /\ pixels' = [pixels EXCEPT ![y] = [xx \in Cols |-> ZeroColor]]

\* The head of the disparity loop's body: s, left, right and the edge test.
ColStep(y) ==
    /\ ~Crashed
    /\ pc[y] = "col"
    /\ IF EdgeSkip(LeftOf(x[y], y), RightOf(x[y], y))
         THEN EndColumn(y)
         ELSE /\ pc' = [pc EXCEPT ![y] = "vis"]
              /\ t' = [t EXCEPT ![y] = 1]
              /\ left' = [left EXCEPT ![y] = LeftOf(x[y], y)]
              /\ right' = [right EXCEPT ![y] = RightOf(x[y], y)]
              /\ UNCHANGED <<x, pixels>>
    /\ UNCHANGED <<inputVars, maskVars, mainPc, spawned, wg, same, partial, img,
                   rng, writes, draws, drawn, linked>>

\* One iteration of the visibility loop. zBuf[x-t][y] < zt is evaluated first and
\* zBuf[x+t][y] < zt only when it holds; either index may be out of range.
VisStep(y) ==
    LET z == zBuf[x[y]][y]
        lo == x[y] - t[y]
        hi == x[y] + t[y]
        loBelow == DepthBelowZt(zBuf[lo][y], z, t[y])
        isVisible == loBelow /\ DepthBelowZt(zBuf[hi][y], z, t[y])
    IN
    /\ ~Crashed
    /\ pc[y] = "vis"
    /\ IF ~InRange(lo) \/ (loBelow /\ ~InRange(hi))
         THEN /\ pc' = [pc EXCEPT ![y] = "panic"]
              /\ UNCHANGED <<x, t, left, right, pixels>>
         ELSE IF isVisible /\ ZtBelowOne(z, t[y])
           THEN /\ t' = [t EXCEPT ![y] = t[y] + 1]
                /\ UNCHANGED <<pc, x, left, right, pixels>>
           ELSE IF ~isVisible
             THEN EndColumn(y)
             ELSE /\ pc' = [pc EXCEPT ![y] = "link"]
                  /\ UNCHANGED <<x, t, left, right, pixels>>
    /\ UNCHANGED <<inputVars, maskVars, mainPc, spawned, wg, same, partial, img,
                   rng, writes, draws, drawn, linked>>

\* One iteration of the link-resolution loop, or its exit and same[left] = right.
LinkStep(y) ==
    LET k == same[y][left[y]] IN
    /\ ~Crashed
    /\ pc[y] = "link"
    /\ IF ~InRange(left[y])
         THEN /\ pc' = [pc EXCEPT ![y] = "panic"]
              /\ UNCHANGED <<x, t, left, right, pixels, same, linked>>
         ELSE IF LinkLoopCond(k, left[y], right[y])
           THEN /\ IF k < right[y]
                     THEN /\ left' = [left EXCEPT ![y] = k]
                          /\ UNCHANGED right
                     ELSE /\ left' = [left EXCEPT ![y] = right[y]]
                          /\ right' = [right EXCEPT ![y] = k]
                /\ UNCHANGED <<pc, x, t, pixels, same, linked>>
           ELSE /\ same' = [same EXCEPT ![y][left[y]] = right[y]]
                /\ linked' = [linked EXCEPT ![y] =
                                @ \cup {<<LeftOf(x[y], y), RightOf(x[y], y)>>}]
                /\ EndColumn(y)
    /\ UNCHANGED <<inputVars, maskVars, mainPc, spawned, wg, partial, img, rng,
                   writes, draws, drawn>>

\* pixels[x] = c; img.Set(x, y, pixels[x].RGBA()); x--
SetPixel(y, c) ==
    /\ pixels' = [pixels EXCEPT ![y][x[y]] = c]
    /\ img' = [img EXCEPT ![y][x[y]] = c]
    /\ writes' = [writes EXCEPT ![y][x[y]] = Append(@, y)]
    /\ x' = [x EXCEPT ![y] = x[y] - 1]
    /\ pc' = [pc EXCEPT ![y] = IF ColorLoopCond(x[y] - 1) THEN "color" ELSE "exit"]

\* A column of the colouring loop that copies: pixels[x] = pixels[same[x]].
ColorCopy(y) ==
    /\ ~Crashed
    /\ pc[y] = "color"
    /\ same[y][x[y]] # x[y]
    /\ IF ~InRange(same[y][x[y]])
         THEN /\ pc' = [pc EXCEPT ![y] = "panic"]
              /\ UNCHANGED <<x, pixels, img, writes>>
         ELSE SetPixel(y, pixels[y][same[y][x[y]]])
    /\ UNCHANGED <<inputVars, maskVars, mainPc, spawned, wg, t, left, right, same,
                   partial, rng, draws, drawn, linked>>

\* getRandomPaletteColor with the palette ignored: always a random colour.
getRandomPaletteColorIgnoringPalette(pal, sofar, v) ==
    MkColor(IF Len(sofar) > 0 THEN sofar[1] ELSE v,
            IF Len(sofar) > 1 THEN sofar[2] ELSE v, v, 255)

\* getRandomPaletteColor: the colour made of the channels drawn so far and v.
getRandomPaletteColor(pal, sofar, v) ==
    IF Len(pal) = 0
      THEN MkColor(sofar[1], sofar[2], v, 255)
      ELSE pal[v + 1]

\* A column of the colouring loop that draws: one call of rand.Intn. With a
\* palette it selects the colour; without, the third call completes R, G, B.
ColorDraw(y) ==
    LET n == IF Len(palette) = 0 THEN 256 ELSE Len(palette)
        v == Intn(n, rng)
    IN
    /\ ~Crashed
    /\ pc[y] = "color"
    /\ same[y][x[y]] = x[y]
    /\ rng' = Advance(rng)
    /\ draws' = Append(draws, [w |-> y, pos |-> rng])
    /\ IF Len(palette) = 0 /\ Len(partial[y]) < 2
         THEN /\ partial' = [partial EXCEPT ![y] = Append(@, v)]
              /\ UNCHANGED <<pc, x, pixels, img, writes, drawn>>
         ELSE /\ partial' = [partial EXCEPT ![y] = <<>>]
              /\ drawn' = [drawn EXCEPT ![y] =
                             @ \cup {getRandomPaletteColor(palette, partial[y], v)}]
              /\ SetPixel(y, getRandomPaletteColor(palette, partial[y], v))
    /\ UNCHANGED <<inputVars, maskVars, mainPc, spawned, wg, t, left, right, same,
                   linked>>

\* The worker returns: the deferred wg.Done().
WorkerExit(y) ==
    /\ ~Crashed
    /\ pc[y] = "exit"
    /\ pc' = [pc EXCEPT ![y] = "done"]
    /\ wg' = wg - 1
    /\ UNCHANGED <<inputVars, maskVars, mainPc, spawned, x, t, left, right, same,
                   pixels, partial, img, rng, writes, draws, drawn, linked>>

\* wg.Wait() returns and drawAutoStereogram returns img.
Wait ==
    /\ ~Crashed
    /\ mainPc = "wait"
    /\ wg = 0
    /\ mainPc' = "returned"
    /\ UNCHANGED <<inputVars, maskVars, spawned, wg, pc, x, t, left, right, same,
                   pixels, partial, img, rng, writes, draws, drawn, linked>>

Next ==
    \/ Spawn
    \/ Wait
    \/ \E y \in Rows : ColStep(y)
    \/ \E y \in Rows : VisStep(y)
    \/ \E y \in Rows : LinkStep(y)
    \/ \E y \in Rows : ColorCopy(y)
    \/ \E y \in Rows : ColorDraw(y)
    \/ \E y \in Rows : WorkerExit(y)

Spec == Init /\ [][Next]_vars


\* ------------------------------------------------------------ newDepthBufferFromImage
\* isTransparentMaskPixel
isTransparentMaskPixel(pxColor, maskTransparentColor) ==
    IF maskTransparentColor = NilColor
      THEN RGBA16(pxColor).a = 0
      ELSE Equal(ColorRGBA(pxColor), maskTransparentColor)

\* The pixels of the masks of SpecMask.
MaskPixels ==
    { MkPixel("RGBA", 0, 0, 0, 0),
      MkPixel("RGBA", 255, 255, 255, 255),
      MkPixel("RGBA", 128, 128, 128, 128),
      MkPixel("NRGBA", 255, 255, 255, 0),
      MkPixel("NRGBA", 255, 255, 255, 128),
      MkPixel("NRGBA", 128, 128, 128, 255) }

\* The values of cfg.MaskTransparentColor of SpecMask.
MaskTransparentColors ==
    { NilColor, MkColor(255, 255, 255, 255), MkColor(255, 255, 255, 128),
      MkColor(128, 128, 128, 128), MkColor(128, 128, 128, 255) }

\* maskImg.Bounds().Dx() and Dy() of mask[x][y]
Dx(m) == Cardinality(DOMAIN m)
Dy(m) == Cardinality(DOMAIN m[0])

\* The state when NewStereogramFromMask has decoded the mask, applied the
\* options and calls newDepthBufferFromImage.
InitMask ==
    /\ imgWidth \in 1 .. MaxMaskCells
    /\ imgHeight \in 1 .. MaxMaskCells
    /\ imgWidth * imgHeight <= MaxMaskCells
    /\ mask \in [0 .. imgWidth - 1 -> [0 .. imgHeight - 1 -> MaskPixels]]
    /\ \E col \in MaskTransparentColors :
          cfg = WithMaskTransparentColor(DefaultCfg, col)
    /\ depth = [xx \in Cols |-> <<>>]
    /\ mx = 0
    /\ zBuf = NoMask
    /\ mainPc = "depth"
    /\ spawned = 0
    /\ wg = 0
    /\ pc = [y \in Rows |-> "idle"]
    /\ x = [y \in Rows |-> 0]
    /\ t = [y \in Rows |-> 0]
    /\ left = [y \in Rows |-> 0]
    /\ right = [y \in Rows |-> 0]
    /\ same = [y \in Rows |-> <<>>]
    /\ pixels = [y \in Rows |-> <<>>]
    /\ partial = [y \in Rows |-> <<>>]
    /\ img = [y \in Rows |-> [xx \in Cols |-> ZeroColor]]
    /\ rng = 0
    /\ writes = [y \in Rows |-> [xx \in Cols |-> <<>>]]
    /\ draws = <<>>
    /\ drawn = [y \in Rows |-> {}]
    /\ linked = [y \in Rows |-> {}]

synthVars == <<spawned, pc, x, t, left, right, same, pixels, partial, img, rng,
               writes, draws, drawn, linked>>

\* One iteration of the loop over x: z[x] = make([]float64, sizeY), then the loop
\* over y, which leaves 0 at a transparent pixel and sets 1 at any other.
BuildColumn ==
    /\ mainPc = "depth"
    /\ mx < Dx(mask)
    /\ depth' = [depth EXCEPT ![mx] =
                   [yy \in 0 .. Dy(mask) - 1 |->
                      IF isTransparentMaskPixel(mask[mx][yy], cfg.MaskTransparentColor)
                        THEN 0 ELSE 1]]
    /\ mx' = mx + 1
    /\ UNCHANGED <<imgWidth, imgHeight, zBuf, cfg, mask, mainPc, wg, synthVars>>

\* newDepthBufferFromImage returns z; drawAutoStereogram gets it as zBuf, makes
\* img and calls wg.Add(imgHeight).
ReturnDepth ==
    /\ mainPc = "depth"
    /\ mx = Dx(mask)
    /\ zBuf' = depth
    /\ mainPc' = "spawn"
    /\ wg' = imgHeight
    /\ UNCHANGED <<imgWidth, imgHeight, cfg, mask, depth, mx, synthVars>>

NextMask == BuildColumn \/ ReturnDepth

SpecMask == InitMask /\ [][NextMask]_vars


\* ------------------------------------------------------------ helpers of the properties
Range(f) == {f[i] : i \in DOMAIN f}

\* The column reached from i by following the link table f, at most n links.
RECURSIVE Follow(_, _, _)
Follow(f, i, n) ==
    IF n = 0 \/ i \notin DOMAIN f \/ f[i] = i THEN i ELSE Follow(f, f[i], n - 1)

\* The link group of column i of row y: the column its chain of links ends at.
Group(y, i) == Follow(same[y], i, imgWidth)

\* The columns of row y that draw a colour, and those among them right of xx.
Roots(y) == {c \in Cols : same[y][c] = c}
RootsRightOf(y, xx) == {c \in Roots(y) : c > xx}

RECURSIVE RootsBefore(_)
RootsBefore(y) == IF y = 0 THEN 0 ELSE RootsBefore(y - 1) + Cardinality(Roots(y - 1))

\* The colour getRandomPaletteColor returns when its first rand.Intn is the
\* source's draw number pos.
ColorAt(pos) ==
    IF Len(palette) = 0
      THEN MkColor(Intn(256, pos), Intn(256, pos + 1), Intn(256, pos + 2), 255)
      ELSE palette[Intn(Len(palette), pos) + 1]

\* The colour of pixel (xx, y) when the rows are coloured one after the other,
\* row 0 first: the schedule in which every worker runs to its end in turn.
SequentialColor(y, xx) ==
    ColorAt(IntnPerColor(palette) *
              (RootsBefore(y) + Cardinality(RootsRightOf(y, Group(y, xx)))))

DrawsOf(y) == {i \in DOMAIN draws : draws[i].w = y}

Returned == mainPc = "returned"

\* ------------------------------------------------------------ the properties

\* C1: with the random source seeded identically (the one stream of this model),
\* the returned image is the same under every interleaving of the row workers:
\* each pixel has the colour it has when the rows are coloured in turn.
C1_SameImageUnderEveryInterleaving ==
    Returned =>
      \A y \in Rows : \A xx \in Cols : img[y][xx] = SequentialColor(y, xx)

\* C2: with a non-empty palette every pixel written to the output image, drawn
\* or copied through the link table, holds one of the palette entries, and the
\* returned image holds nothing else.
C2_PaletteContainment ==
    Len(palette) > 0 =>
      \A y \in Rows : \A xx \in Cols :
        (writes[y][xx] # <<>> \/ Returned) => img[y][xx] \in Range(palette)

C2_Witness ==
    /\ Returned
    /\ Len(palette) > 0
    /\ \E y \in Rows : \E xx \in Cols : same[y][xx] # xx

\* C3: no index used by a row worker is out of range: no worker panics.
C3_NoIndexOutOfRange == \A y \in Rows : pc[y] # "panic"

\* C4: when the call has returned every pixel (xx, y) has been written exactly
\* once, by the worker of row y, with a colour getRandomPaletteColor returned to
\* that worker, every worker has ended, and no pixel is written afterwards.
C4_Written ==
    Returned =>
      \A y \in Rows :
        /\ pc[y] = "done"
        /\ \A xx \in Cols : writes[y][xx] = <<y>> /\ img[y][xx] \in drawn[y]

C4_EveryPixelWrittenOnce ==
    /\ []C4_Written
    /\ [][Returned => (img' = img /\ writes' = writes)]_vars

C4_Witness ==
    /\ Returned
    /\ imgHeight = 2
    /\ imgWidth >= 2
    /\ \E xx \in Cols : same[0][xx] # xx

\* C5: the draws are atomic on the shared source: no two calls of rand.Intn, of
\* the same or of different workers, observe the same position of the stream.
C5_DrawsObserveDistinctPositions ==
    \A i \in DOMAIN draws : \A j \in DOMAIN draws :
      i # j => draws[i].pos # draws[j].pos

C5_Witness ==
    /\ Len(draws) >= 3
    /\ draws[1].w # draws[2].w
    /\ draws[3].w = draws[1].w

\* The 8-bit alpha-premultiplied channels of a pixel: its own channels when it
\* is stored premultiplied, floor(c * A / 255) when it is not.
Premultiplied8(px) ==
    IF px.model = "NRGBA"
      THEN MkColor((px.R * px.A) \div 255, (px.G * px.A) \div 255,
                   (px.B * px.A) \div 255, px.A)
      ELSE MkColor(px.R, px.G, px.B, px.A)

DepthBuilt == mainPc = "spawn"

\* The depth field has the mask's dimensions and the values 0 and 1 only, and
\* is 0 exactly at the pixels for which transparent(pixel) holds.
DepthIsZeroWhere(transparent(_)) ==
    DepthBuilt =>
      /\ DOMAIN zBuf = DOMAIN mask
      /\ \A xx \in DOMAIN mask :
            /\ DOMAIN zBuf[xx] = DOMAIN mask[xx]
            /\ \A yy \in DOMAIN mask[xx] :
                  /\ zBuf[xx][yy] \in {0, 1}
                  /\ zBuf[xx][yy] = 0 <=> transparent(mask[xx][yy])

\* C6 as claimed: depth 0 exactly at the transparent pixels, where a pixel is
\* transparent, without an override, when its alpha is 0 and, with one, when its
\* own four 8-bit channels equal the override's.
C6_OwnChannelsEqualOverride ==
    LET transparent(px) ==
          IF cfg.MaskTransparentColor = NilColor
            THEN px.A = 0
            ELSE /\ px.R = cfg.MaskTransparentColor.R
                 /\ px.G = cfg.MaskTransparentColor.G
                 /\ px.B = cfg.MaskTransparentColor.B
                 /\ px.A = cfg.MaskTransparentColor.A
    IN DepthIsZeroWhere(transparent)

\* What newDepthBufferFromImage computes instead of C6: with an override, a
\* pixel is transparent when its 8-bit alpha-premultiplied channels equal the
\* override's.
C6_PremultipliedChannelsEqualOverride ==
    LET transparent(px) ==
          IF cfg.MaskTransparentColor = NilColor
            THEN px.A = 0
            ELSE Premultiplied8(px) = cfg.MaskTransparentColor
    IN DepthIsZeroWhere(transparent)

\* C7: every call returns: a state in which nothing can run is the returned one.
C7_CallReturns == Returned \/ ENABLED Next

\* C8: a pair <<left, right>> that passed the edge and visibility tests stays in
\* one link group in every later state of the row, and has one colour in the
\* finished row.
C8_ConstraintsKept ==
    \A y \in Rows : \A p \in linked[y] :
      /\ Group(y, p[1]) = Group(y, p[2])
      /\ pc[y] \in {"exit", "done"} => img[y][p[1]] = img[y][p[2]]

C8_Witness ==
    \E y \in Rows :
      /\ pc[y] = "done"
      /\ Cardinality(linked[y]) >= 2
      /\ \E p \in linked[y] : same[y][p[1]] # p[2]
      /\ Len(palette) = 2

\* C9: in a started row xx <= same[xx] < imgWidth for every column, left < right
\* during link resolution, and a column of the colouring pass that copies does so
\* from a column to its right that has been written already.
C9_LinksPointRight ==
    \A y \in Rows :
      /\ pc[y] # "idle" => \A xx \in Cols : xx <= same[y][xx] /\ same[y][xx] < imgWidth
      /\ pc[y] = "link" => left[y] < right[y]
      /\ (pc[y] = "color" /\ same[y][x[y]] # x[y]) =>
            /\ same[y][x[y]] > x[y]
            /\ writes[y][same[y][x[y]]] # <<>>

C9_Witness ==
    \E y \in Rows :
      /\ pc[y] = "color"
      /\ same[y][x[y]] # x[y]
      /\ same[y][same[y][x[y]]] # same[y][x[y]]

\* C10: a column whose pair has left < 0 or right >= imgWidth leaves the link
\* table as it is and the worker goes on to the next column; a finished row in
\* which every column's separation is at least the width has the identity link
\* table, and each of its columns got a colour drawn for it alone.
C10_EdgeStep ==
    \A y \in Rows :
      (pc[y] = "col" /\ (LeftOf(x[y], y) < 0 \/ RightOf(x[y], y) >= imgWidth)) =>
        /\ same'[y] = same[y]
        /\ pc'[y] \in {"col", "color"}
        /\ pc'[y] = "col" => x'[y] \in {x[y], x[y] + 1}

C10_WideSeparation ==
    \A y \in Rows :
      (pc[y] \in {"exit", "done"} /\ \A xx \in Cols : Sep(xx, y) >= imgWidth) =>
        /\ \A xx \in Cols : same[y][xx] = xx
        /\ Cardinality(DrawsOf(y)) = imgWidth * IntnPerColor(palette)

C10_EdgeExclusion ==
    /\ [][C10_EdgeStep]_vars
    /\ []C10_WideSeparation

C10_Witness ==
    /\ Returned
    /\ imgWidth = 4
    /\ cfg = DefaultCfg
    /\ \A xx \in Cols : zBuf[xx][0] = 0

====
